---- MODULE Spec2Model ----
(***************************************************************************)
(* Bilateral slicing (hdrnet/ops/bilateral_slice.cu.cc): the forward       *)
(* kernel Slice, the two gradient kernels GridGradient and GuideGradient,  *)
(* and the two host launchers.                                             *)
(*                                                                         *)
(* Numbers.  The kernels compute in float; the model computes in exact     *)
(* fixed point.  Along x every coordinate and weight is an integer count   *)
(* of 1/XOne (XOne = 2*guide_width), along y of 1/YOne, and along depth    *)
(* of 1/ZOne (ZOne = 2*GuideRes*grid_depth), so that the half-cell offsets *)
(* 0.5f, the products with scale_x = grid_width/guide_width and the        *)
(* product guide*grid_depth are all exact.  A guide value n stands for the *)
(* real n/ZOne.  A sliced value is an integer count of 1/OutOne, a guide   *)
(* gradient of 1/GuideVjpOne.  Rounding of float arithmetic is not         *)
(* modelled.                                                               *)
(***************************************************************************)
EXTENDS Integers, Sequences, FiniteSets, TLC

\* Bounds of the model.
MaxExtent == 3
MaxWork == 13
MaxThreads == 2
GuideRes == 2
GuideMargin == 2

VARIABLES
  dims,              \* extents: C, D, GX, GY of the grid, W, H of the guide, B batch
  grid,              \* Grid, flat memory (array base), read-only
  guide,             \* Guide, flat memory, read-only
  codomain_tangent,  \* CodomainTangent, flat memory, read-only
  out,               \* Slice's output memory
  grid_vjp_out,      \* GridGradient's output memory
  guide_vjp_out,     \* GuideGradient's output memory
  writes,            \* per output array, per element: number of stores so far
  launched,          \* kernel -> nthreads it was launched with (kernels launched so far)
  next_idx,          \* kernel -> per thread, the idx its strided loop handles next
  call,              \* the launcher the host calls: "slice" or "grad"
  pc,                \* host: "idle", "launched" (kernels enqueued), "returned"
  ret,               \* the launcher's return value once returned
  device_ok,         \* device.ok(): no execution fault so far
  device_threads,    \* total threads GetGpuLaunchConfig gives a launch on this device
  stream_ordered     \* kernels of one call run in launch order (one stream)

vars == <<dims, grid, guide, codomain_tangent, out, grid_vjp_out, guide_vjp_out,
          writes, launched, next_idx, call, pc, ret, device_ok, device_threads,
          stream_ordered>>

inputs == <<dims, grid, guide, codomain_tangent>>

\* Content of output memory no kernel has stored to yet.
Uninit == 0 - 4711
NoRet == "none"

----------------------------------------------------------------------------
\* Arithmetic helpers.

Abs(a) == IF a < 0 THEN -a ELSE a
Max(a, b) == IF a < b THEN b ELSE a
Min(a, b) == IF b < a THEN b ELSE a

\* std::floor / std::ceil of the rational n/d, d > 0, cast to int.
Floor(n, d) == n \div d
Ceil(n, d) == -((-n) \div d)

\* std::clamp(v, lo, hi)
ClampHiOffByOne(v, lo, hi) == IF v < lo THEN lo ELSE IF hi + 1 < v THEN hi + 1 ELSE v
Clamp(v, lo, hi) == IF v < lo THEN lo ELSE IF hi < v THEN hi ELSE v

Sum2(F(_), a) == F(a) + F(a + 1)

RECURSIVE SumRange(_, _, _)
SumRange(F(_), lo, hi) == IF lo >= hi THEN 0 ELSE F(lo) + SumRange(F, lo + 1, hi)

----------------------------------------------------------------------------
\* Extents, as the kernels read them from their array arguments.

grid_channels == dims.C
grid_depth == dims.D
grid_width == dims.GX
grid_height == dims.GY
guide_width == dims.W
guide_height == dims.H
batch == dims.B

out_count == grid_channels * guide_width * guide_height * batch
grid_vjp_count == grid_channels * grid_depth * grid_width * grid_height * batch
guide_vjp_count == guide_width * guide_height * batch

\* Fixed-point units.
XOne == 2 * guide_width
YOne == 2 * guide_height
ZOne == 2 * GuideRes * grid_depth
ZOneSq == ZOne * ZOne
OutOne == XOne * YOne * ZOneSq
GuideVjpOne == XOne * YOne * ZOne

\* Dense offsets of nda::array_ref::operator(): first axis innermost.
At3(x, y, b) == x + guide_width * (y + guide_height * b)
At4(c, x, y, b) == c + grid_channels * (x + guide_width * (y + guide_height * b))
At5(c, gz, gx, gy, b) ==
  c + grid_channels * (gz + grid_depth * (gx + grid_width * (gy + grid_height * b)))

----------------------------------------------------------------------------
\* numerics.h.  c is the sample centre, q the query, one the unit.

\* Triangular weight, in 1/one.
LerpWeight(c, q, one) == Max(one - Abs(c - q), 0)

\* C1 analogue of the triangular weight: 1 at distance 0, 0 from distance 1 on,
\* derivative 0 at both ends of the support.  In 1/one^2.
SmoothedLerpWeight(c, q, one) ==
  LET a == Abs(c - q) IN
  IF a >= one THEN 0
  ELSE IF 2 * a <= one THEN one * one - 2 * a * a
  ELSE 2 * (one - a) * (one - a)

\* d SmoothedLerpWeight / d q, in 1/one.
SmoothedLerpWeightGrad(c, q, one) ==
  LET a == Abs(c - q) IN
  IF a >= one THEN 0
  ELSE IF q > c THEN -4 * Min(a, one - a)
  ELSE 4 * Min(a, one - a)

MirrorBoundary(i, extent) ==
  IF i < 0 THEN -i - 1
  ELSE IF i >= extent THEN 2 * extent - 1 - i
  ELSE i

----------------------------------------------------------------------------
\* BilateralSliceKernel.

output_x_stride == grid_channels
output_y_stride == output_x_stride * guide_width
output_b_stride == output_y_stride * guide_height

SliceCoords(idx) ==
  [c |-> idx % grid_channels,
   x |-> (idx \div output_x_stride) % guide_width,
   y |-> (idx \div output_y_stride) % guide_height,
   b |-> idx \div output_b_stride]

\* gxf = (x + 0.5f) * scale_x, in 1/XOne; gyf likewise in 1/YOne.
SliceGxf(x) == (2 * x + 1) * grid_width
SliceGyf(y) == (2 * y + 1) * grid_height
\* gzf = guide(x, y, b) * grid_depth, in 1/ZOne.
SliceGzf(gd, x, y, b) == gd[At3(x, y, b)] * grid_depth

SliceGx0(x) == Floor(SliceGxf(x) - guide_width, XOne)
SliceGy0(y) == Floor(SliceGyf(y) - guide_height, YOne)
SliceGz0NoHalf(gd, x, y, b) == Floor(SliceGzf(gd, x, y, b), ZOne)
SliceGz0(gd, x, y, b) == Floor(2 * SliceGzf(gd, x, y, b) - ZOne, 2 * ZOne)

\* Centre of cell g, g + 0.5f, in 1/one.
CellCentre(g, one) == (2 * g + 1) * (one \div 2)

SliceGxc(gx) == Clamp(gx, 0, grid_width - 1)
SliceGyc(gy) == Clamp(gy, 0, grid_height - 1)
SliceGzcWrap(gz) == gz % grid_depth
SliceGzc(gz) == Clamp(gz, 0, grid_depth - 1)

SliceWx(gx, x) == LerpWeight(CellCentre(gx, XOne), SliceGxf(x), XOne)
SliceWy(gy, y) == LerpWeight(CellCentre(gy, YOne), SliceGyf(y), YOne)
SliceWz(gd, gz, x, y, b) ==
  SmoothedLerpWeight(CellCentre(gz, ZOne), SliceGzf(gd, x, y, b), ZOne)

\* The eight stencil entries of pixel (x, y, b): unclamped cell, clamped cell, weight.
SliceStencil(gd, x, y, b) ==
  { [gx |-> gx, gy |-> gy, gz |-> gz,
     gxc |-> SliceGxc(gx), gyc |-> SliceGyc(gy), gzc |-> SliceGzc(gz),
     wx |-> SliceWx(gx, x), wy |-> SliceWy(gy, y),
     wz |-> SliceWz(gd, gz, x, y, b)] :
    gx \in SliceGx0(x) .. SliceGx0(x) + 1,
    gy \in SliceGy0(y) .. SliceGy0(y) + 1,
    gz \in SliceGz0(gd, x, y, b) .. SliceGz0(gd, x, y, b) + 1 }

CellInGrid(gzc, gxc, gyc) ==
  /\ gzc \in 0 .. grid_depth - 1
  /\ gxc \in 0 .. grid_width - 1
  /\ gyc \in 0 .. grid_height - 1

\* Every read of the task is inside its array.
SliceReadsInBounds(gd, idx) ==
  LET p == SliceCoords(idx) IN
  /\ p.x \in 0 .. guide_width - 1 /\ p.y \in 0 .. guide_height - 1
  /\ p.b \in 0 .. batch - 1 /\ p.c \in 0 .. grid_channels - 1
  /\ grid_depth > 0
  /\ \A e \in SliceStencil(gd, p.x, p.y, p.b) : CellInGrid(e.gzc, e.gxc, e.gyc)

\* value, in 1/OutOne.
SliceValue(g, gd, c, x, y, b) ==
  Sum2(LAMBDA gy :
    Sum2(LAMBDA gx :
      Sum2(LAMBDA gz :
        SliceWx(gx, x) * SliceWy(gy, y) * SliceWz(gd, gz, x, y, b)
          * g[At5(c, SliceGzc(gz), SliceGxc(gx), SliceGyc(gy), b)],
        SliceGz0(gd, x, y, b)),
      SliceGx0(x)),
    SliceGy0(y))

----------------------------------------------------------------------------
\* BilateralSliceGridGradKernel.

codomain_tangent_stride_x == grid_channels
codomain_tangent_stride_y == codomain_tangent_stride_x * guide_width
codomain_tangent_stride_b == codomain_tangent_stride_y * guide_height
grid_z_stride == grid_channels
grid_x_stride == grid_z_stride * grid_depth
grid_y_stride == grid_x_stride * grid_width
grid_b_stride == grid_y_stride * grid_height

GridGradCoordsBadY(idx) ==
  [gc |-> idx % grid_channels,
   gz |-> (idx \div grid_z_stride) % grid_depth,
   gx |-> (idx \div grid_x_stride) % grid_width,
   gy |-> (idx \div grid_x_stride) % grid_height,
   b |-> idx \div grid_b_stride]
GridGradCoords(idx) ==
  [gc |-> idx % grid_channels,
   gz |-> (idx \div grid_z_stride) % grid_depth,
   gx |-> (idx \div grid_x_stride) % grid_width,
   gy |-> (idx \div grid_y_stride) % grid_height,
   b |-> idx \div grid_b_stride]

\* The window of guide pixels: scale_x = guide_width / grid_width,
\* x0 = floor(scale_x * (gx + 0.5f - 1.0f)), x1_exclusive = ceil(scale_x * (gx + 0.5f + 1.0f)).
GridGradX0(gx) == Floor(guide_width * (2 * gx - 1), 2 * grid_width)
GridGradX1Wide(gx) == Ceil(guide_width * (2 * gx + 5), 2 * grid_width)
GridGradX1(gx) == Ceil(guide_width * (2 * gx + 3), 2 * grid_width)
GridGradY0(gy) == Floor(guide_height * (2 * gy - 1), 2 * grid_height)
GridGradY1(gy) == Ceil(guide_height * (2 * gy + 3), 2 * grid_height)

GridGradXMirror(x) == MirrorBoundary(x, guide_width)
GridGradYMirror(y) == MirrorBoundary(y, guide_height)

\* gxf = (x + 0.5f) / scale_x, in 1/XOne.
GridGradGxf(x) == (2 * x + 1) * grid_width
GridGradGyf(y) == (2 * y + 1) * grid_height
GridGradWx(gx, x) == LerpWeight(CellCentre(gx, XOne), GridGradGxf(x), XOne)
GridGradWy(gy, y) == LerpWeight(CellCentre(gy, YOne), GridGradGyf(y), YOne)

GridGradGuideIdx(xm, ym, b) == xm + guide_width * ym + guide_height * guide_width * b
GridGradTangentIdx(gc, xm, ym, b) ==
  gc + codomain_tangent_stride_x * xm + codomain_tangent_stride_y * ym
     + codomain_tangent_stride_b * b

GridGradGzf(gd, xm, ym, b) == gd[GridGradGuideIdx(xm, ym, b)] * grid_depth

GridGradWzNoOverride(gz, gzf) ==
  SmoothedLerpWeight(CellCentre(gz, ZOne), gzf, ZOne)

\* wz, in 1/ZOneSq: forced to 1.0f at the first cell below 0.5 and at the last
\* cell above grid_depth - 0.5.
GridGradWz(gz, gzf) ==
  IF \/ (gz = 0 /\ 2 * gzf < ZOne)
     \/ (gz = grid_depth - 1 /\ 2 * gzf > 2 * grid_depth * ZOne - ZOne)
  THEN ZOneSq
  ELSE SmoothedLerpWeight(CellCentre(gz, ZOne), gzf, ZOne)

GridGradWindow(gx, gy) ==
  (GridGradX0(gx) .. GridGradX1(gx) - 1) \X (GridGradY0(gy) .. GridGradY1(gy) - 1)

GridGradReadsInBounds(idx) ==
  LET p == GridGradCoords(idx) IN
  \A xy \in GridGradWindow(p.gx, p.gy) :
    LET xm == GridGradXMirror(xy[1])
        ym == GridGradYMirror(xy[2])
    IN /\ GridGradGuideIdx(xm, ym, p.b) \in 0 .. guide_vjp_count - 1
       /\ GridGradTangentIdx(p.gc, xm, ym, p.b) \in 0 .. out_count - 1

\* vjp_value, in 1/OutOne.
GridGradValue(gd, ct, gc, gz, gx, gy, b) ==
  SumRange(LAMBDA y :
    SumRange(LAMBDA x :
      GridGradWz(gz, GridGradGzf(gd, GridGradXMirror(x), GridGradYMirror(y), b))
        * GridGradWx(gx, x) * GridGradWy(gy, y)
        * ct[GridGradTangentIdx(gc, GridGradXMirror(x), GridGradYMirror(y), b)],
      GridGradX0(gx), GridGradX1(gx)),
    GridGradY0(gy), GridGradY1(gy))

----------------------------------------------------------------------------
\* BilateralSliceGuideGradKernel.

guide_y_stride == guide_width
guide_b_stride == guide_y_stride * guide_height

GuideGradCoords(idx) ==
  [x |-> idx % guide_width,
   y |-> (idx \div guide_y_stride) % guide_height,
   b |-> idx \div guide_b_stride]

GuideGradGxf(x) == (2 * x + 1) * grid_width
GuideGradGyf(y) == (2 * y + 1) * grid_height
GuideGradGuideIdx(x, y, b) == x + guide_width * (y + guide_height * b)
GuideGradGzf(gd, x, y, b) == gd[GuideGradGuideIdx(x, y, b)] * grid_depth

GuideGradGx0(x) == Floor(GuideGradGxf(x) - guide_width, XOne)
GuideGradGy0(y) == Floor(GuideGradGyf(y) - guide_height, YOne)
GuideGradGz0(gd, x, y, b) == Floor(2 * GuideGradGzf(gd, x, y, b) - ZOne, 2 * ZOne)

GuideGradGxc(gx) == Clamp(gx, 0, grid_width - 1)
GuideGradGyc(gy) == Clamp(gy, 0, grid_height - 1)
GuideGradGzc(gz) == Clamp(gz, 0, grid_depth - 1)

GuideGradWx(gx, x) == LerpWeight(CellCentre(gx, XOne), GuideGradGxf(x), XOne)
GuideGradWy(gy, y) == LerpWeight(CellCentre(gy, YOne), GuideGradGyf(y), YOne)

\* dwz = grid_depth * SmoothedLerpWeightGrad(gz + 0.5f, gzf), in 1/ZOne.
GuideGradDwzNoDepth(gd, gz, x, y, b) ==
  SmoothedLerpWeightGrad(CellCentre(gz, ZOne), GuideGradGzf(gd, x, y, b), ZOne)
GuideGradDwz(gd, gz, x, y, b) ==
  grid_depth
    * SmoothedLerpWeightGrad(CellCentre(gz, ZOne), GuideGradGzf(gd, x, y, b), ZOne)

GuideGradGridIdxSwapped(c, gzc, gxc, gyc, b) ==
  c + grid_x_stride * gzc + grid_z_stride * gxc + grid_y_stride * gyc
    + grid_b_stride * b
GuideGradGridIdx(c, gzc, gxc, gyc, b) ==
  c + grid_z_stride * gzc + grid_x_stride * gxc + grid_y_stride * gyc
    + grid_b_stride * b
GuideGradTangentIdx(c, x, y, b) ==
  c + grid_channels * (x + guide_width * (y + guide_height * b))

GuideGradStencil(gd, x, y, b) ==
  { [gx |-> gx, gy |-> gy, gz |-> gz,
     gxc |-> GuideGradGxc(gx), gyc |-> GuideGradGyc(gy), gzc |-> GuideGradGzc(gz),
     wx |-> GuideGradWx(gx, x), wy |-> GuideGradWy(gy, y),
     dwz |-> GuideGradDwz(gd, gz, x, y, b)] :
    gx \in GuideGradGx0(x) .. GuideGradGx0(x) + 1,
    gy \in GuideGradGy0(y) .. GuideGradGy0(y) + 1,
    gz \in GuideGradGz0(gd, x, y, b) .. GuideGradGz0(gd, x, y, b) + 1 }

GuideGradReadsInBounds(gd, idx) ==
  LET p == GuideGradCoords(idx) IN
  /\ p.x \in 0 .. guide_width - 1 /\ p.y \in 0 .. guide_height - 1
  /\ p.b \in 0 .. batch - 1
  /\ GuideGradGuideIdx(p.x, p.y, p.b) \in 0 .. guide_vjp_count - 1
  /\ \/ grid_channels = 0
     \/ /\ grid_depth > 0
        /\ \A e \in GuideGradStencil(gd, p.x, p.y, p.b) :
             /\ CellInGrid(e.gzc, e.gxc, e.gyc)
             /\ \A c \in 0 .. grid_channels - 1 :
                  GuideGradGridIdx(c, e.gzc, e.gxc, e.gyc, p.b)
                    \in 0 .. grid_vjp_count - 1

\* grid_sample of channel c, in 1/GuideVjpOne.
GuideGradSample(g, gd, c, x, y, b) ==
  Sum2(LAMBDA gy :
    Sum2(LAMBDA gx :
      Sum2(LAMBDA gz :
        GuideGradWx(gx, x) * GuideGradWy(gy, y) * GuideGradDwz(gd, gz, x, y, b)
          * g[GuideGradGridIdx(c, GuideGradGzc(gz), GuideGradGxc(gx),
                               GuideGradGyc(gy), b)],
        GuideGradGz0(gd, x, y, b)),
      GuideGradGx0(x)),
    GuideGradGy0(y))

\* vjp_value, in 1/GuideVjpOne.
GuideGradValue(g, gd, ct, x, y, b) ==
  SumRange(LAMBDA c :
    GuideGradSample(g, gd, c, x, y, b) * ct[GuideGradTangentIdx(c, x, y, b)],
    0, grid_channels)

----------------------------------------------------------------------------
\* Kernel launches and tasks.

Kernels == {"slice", "grid", "guide"}
NotLaunched == [k \in Kernels |-> 0 - 1]
NoThreads == [k \in Kernels |-> <<>>]

\* CUDA_1D_KERNEL_LOOP: thread t starts at idx = t - 1 and strides by the
\* number of threads of the launch.
LaunchThreads == [t \in 1 .. device_threads |-> t - 1]

IsLaunched(k) == launched[k] >= 0
KernelDone(k) == \A t \in DOMAIN next_idx[k] : next_idx[k][t] >= launched[k]

\* What a task that reads outside its arrays can store.
GarbageVals == {0, 1}

SliceLaunchGuard == out_count > 0
GridGradLaunchGuard == grid_vjp_count > 0
GuideGradLaunchGuard == guide_vjp_count > 0

\* BilateralSliceCudaLauncher, up to its return statement.
BilateralSliceCudaLauncher ==
  /\ pc = "idle" /\ call = "slice"
  /\ IF SliceLaunchGuard
     THEN /\ launched' = [launched EXCEPT !["slice"] = out_count]
          /\ next_idx' = [next_idx EXCEPT !["slice"] = LaunchThreads]
     ELSE UNCHANGED <<launched, next_idx>>
  /\ pc' = "launched"
  /\ UNCHANGED <<inputs, out, grid_vjp_out, guide_vjp_out, writes, call, ret,
                 device_ok, device_threads, stream_ordered>>

\* BilateralSliceGradCudaLauncher, up to its return statement.
BilateralSliceGradCudaLauncher ==
  /\ pc = "idle" /\ call = "grad"
  /\ launched' = [launched EXCEPT
                    !["grid"] = IF GridGradLaunchGuard THEN grid_vjp_count ELSE @,
                    !["guide"] = IF GuideGradLaunchGuard THEN guide_vjp_count ELSE @]
  /\ next_idx' = [next_idx EXCEPT
                    !["grid"] = IF GridGradLaunchGuard THEN LaunchThreads ELSE @,
                    !["guide"] = IF GuideGradLaunchGuard THEN LaunchThreads ELSE @]
  /\ pc' = "launched"
  /\ UNCHANGED <<inputs, out, grid_vjp_out, guide_vjp_out, writes, call, ret,
                 device_ok, device_threads, stream_ordered>>

\* return device.ok();
DeviceOk ==
  /\ pc = "launched"
  /\ ret' = device_ok
  /\ pc' = "returned"
  /\ UNCHANGED <<inputs, out, grid_vjp_out, guide_vjp_out, writes, launched,
                 next_idx, call, device_ok, device_threads, stream_ordered>>

Advance(k, t) ==
  next_idx' = [next_idx EXCEPT ![k][t] = @ + Len(next_idx[k])]

Stored(k, o) == writes' = [writes EXCEPT ![k][o] = @ + 1]

\* One iteration of BilateralSliceKernel's loop, by thread t.
SliceTask(t) ==
  /\ IsLaunched("slice")
  /\ t \in DOMAIN next_idx["slice"]
  /\ next_idx["slice"][t] < launched["slice"]
  /\ LET idx == next_idx["slice"][t]
         p == SliceCoords(idx)
         o == At4(p.c, p.x, p.y, p.b)
     IN /\ IF SliceReadsInBounds(guide, idx)
           THEN /\ out' = [out EXCEPT ![o] = SliceValue(grid, guide, p.c, p.x, p.y, p.b)]
                /\ UNCHANGED device_ok
           ELSE \E v \in GarbageVals, ok \in {device_ok, FALSE} :
                  /\ out' = [out EXCEPT ![o] = v]
                  /\ device_ok' = ok
        /\ Stored("slice", o)
  /\ Advance("slice", t)
  /\ UNCHANGED <<inputs, grid_vjp_out, guide_vjp_out, launched, call, pc, ret,
                 device_threads, stream_ordered>>

\* One iteration of BilateralSliceGridGradKernel's loop, by thread t.
GridGradTask(t) ==
  /\ IsLaunched("grid")
  /\ t \in DOMAIN next_idx["grid"]
  /\ next_idx["grid"][t] < launched["grid"]
  /\ LET idx == next_idx["grid"][t]
         p == GridGradCoords(idx)
         o == At5(p.gc, p.gz, p.gx, p.gy, p.b)
     IN /\ IF GridGradReadsInBounds(idx)
           THEN /\ grid_vjp_out' =
                     [grid_vjp_out EXCEPT ![o] =
                        GridGradValue(guide, codomain_tangent,
                                      p.gc, p.gz, p.gx, p.gy, p.b)]
                /\ UNCHANGED device_ok
           ELSE \E v \in GarbageVals, ok \in {device_ok, FALSE} :
                  /\ grid_vjp_out' = [grid_vjp_out EXCEPT ![o] = v]
                  /\ device_ok' = ok
        /\ Stored("grid", o)
  /\ Advance("grid", t)
  /\ UNCHANGED <<inputs, out, guide_vjp_out, launched, call, pc, ret,
                 device_threads, stream_ordered>>

\* The grid argument of the BilateralSliceGuideGradKernel launch.
GuideGradGridArgAliased == grid_vjp_out
GuideGradGridArg == grid

\* One iteration of BilateralSliceGuideGradKernel's loop, by thread t.  On one
\* stream the kernel starts when the kernel launched before it has finished.
GuideGradTask(t) ==
  /\ IsLaunched("guide")
  /\ stream_ordered => KernelDone("grid")
  /\ t \in DOMAIN next_idx["guide"]
  /\ next_idx["guide"][t] < launched["guide"]
  /\ LET idx == next_idx["guide"][t]
         p == GuideGradCoords(idx)
         o == At3(p.x, p.y, p.b)
     IN /\ IF GuideGradReadsInBounds(guide, idx)
           THEN /\ guide_vjp_out' =
                     [guide_vjp_out EXCEPT ![o] =
                        GuideGradValue(GuideGradGridArg, guide, codomain_tangent,
                                       p.x, p.y, p.b)]
                /\ UNCHANGED device_ok
           ELSE \E v \in GarbageVals, ok \in {device_ok, FALSE} :
                  /\ guide_vjp_out' = [guide_vjp_out EXCEPT ![o] = v]
                  /\ device_ok' = ok
        /\ Stored("guide", o)
  /\ Advance("guide", t)
  /\ UNCHANGED <<inputs, out, grid_vjp_out, launched, call, pc, ret,
                 device_threads, stream_ordered>>

Next ==
  \/ BilateralSliceCudaLauncher
  \/ BilateralSliceGradCudaLauncher
  \/ DeviceOk
  \/ \E t \in 1 .. MaxThreads : SliceTask(t)
  \/ \E t \in 1 .. MaxThreads : GridGradTask(t)
  \/ \E t \in 1 .. MaxThreads : GuideGradTask(t)

----------------------------------------------------------------------------
\* Inputs.

Extents(lo) == lo .. MaxExtent

GridCount(s) == s.C * s.D * s.GX * s.GY * s.B
OutCount(s) == s.C * s.W * s.H * s.B
GuideCount(s) == s.W * s.H * s.B

\* Shapes with every extent from lo up whose three arrays hold at most work
\* elements together.
ShapesFrom(lo, work) ==
  { s \in [C : Extents(lo), D : Extents(lo), GX : Extents(lo), GY : Extents(lo),
           W : Extents(lo), H : Extents(lo), B : Extents(lo)] :
      GridCount(s) + OutCount(s) + GuideCount(s) <= work }

Shapes == ShapesFrom(1, MaxWork)

\* Guide values n (the real n/ZOne) from GuideMargin half cells below 0 to
\* GuideMargin half cells above 1.
GuideLo == -(GuideMargin * GuideRes)
GuideHi(s) == 2 * GuideRes * s.D + GuideMargin * GuideRes
GuideSpan(s) == GuideHi(s) - GuideLo + 1

\* Pixel p holds the (g0 + p)-th value of the range, cyclically: over all g0
\* every pixel takes every value, and neighbours differ.
GuideOf(s, g0) ==
  [p \in 0 .. GuideCount(s) - 1 |-> GuideLo + ((g0 + p) % GuideSpan(s))]

Ramp(n) == [i \in 0 .. n - 1 |-> i + 1]
Const(n, k) == [i \in 0 .. n - 1 |-> k]
OneHot(n, j) == [i \in 0 .. n - 1 |-> IF i = j THEN 1 ELSE 0]

GridConstVals == {-2, 3}
SliceGrids(s) == {Ramp(GridCount(s))} \cup {Const(GridCount(s), k) : k \in GridConstVals}
GradGrids(s) == {Ramp(GridCount(s))}
Tangents(s) ==
  {Ramp(OutCount(s))} \cup {OneHot(OutCount(s), j) : j \in 0 .. OutCount(s) - 1}

InitWith(S, G0, SG(_), TG(_), T, O) ==
  /\ dims \in S
  /\ call \in {"slice", "grad"}
  /\ guide \in { GuideOf(dims, g0) : g0 \in (0 .. GuideSpan(dims) - 1) \cap G0 }
  /\ IF call = "slice"
     THEN /\ grid \in SG(dims)
          /\ codomain_tangent = <<>>
          /\ out = Const(OutCount(dims), Uninit)
          /\ grid_vjp_out = <<>>
          /\ guide_vjp_out = <<>>
     ELSE /\ grid \in GradGrids(dims)
          /\ codomain_tangent \in TG(dims)
          /\ out = <<>>
          /\ grid_vjp_out = Const(GridCount(dims), Uninit)
          /\ guide_vjp_out = Const(GuideCount(dims), Uninit)
  /\ writes = [k \in Kernels |->
                 CASE k = "slice" -> Const(OutCount(dims), 0)
                   [] k = "grid" -> Const(GridCount(dims), 0)
                   [] k = "guide" -> Const(GuideCount(dims), 0)]
  /\ launched = NotLaunched
  /\ next_idx = NoThreads
  /\ pc = "idle"
  /\ ret = NoRet
  /\ device_ok = TRUE
  /\ device_threads \in T
  /\ stream_ordered \in O

\* One thread per launch, kernels in stream order, every guide of the family.
Init == InitWith(Shapes, Int, SliceGrids, Tangents, {1}, {TRUE})
Spec == Init /\ [][Next]_vars

\* Up to MaxThreads threads per launch, the tasks of the two gradient kernels in
\* any order (stream order is one of them); one grid, one tangent and one guide
\* of the family, the guide that starts just above the centre of the first
\* depth cell.
RampTangent(s) == {Ramp(OutCount(s))}
InnerGuide == {GuideMargin * GuideRes + GuideRes + 1}
InitPar ==
  InitWith(Shapes, InnerGuide, GradGrids, RampTangent, 1 .. MaxThreads, {FALSE})
SpecPar == InitPar /\ [][Next]_vars

\* Shapes with extents 0 and 1, at least one of them 0: empty arrays.
DegenerateShapes ==
  { s \in [C : 0 .. 1, D : 0 .. 1, GX : 0 .. 1, GY : 0 .. 1,
           W : 0 .. 1, H : 0 .. 1, B : 0 .. 1] :
      GridCount(s) * GuideCount(s) = 0 }
InitDegenerate ==
  InitWith(DegenerateShapes, {0, 3}, GradGrids, RampTangent, {1}, {TRUE})
SpecDegenerate == InitDegenerate /\ [][Next]_vars

----------------------------------------------------------------------------
\* Properties.

Written(k, o) == writes[k][o] > 0

Pixels == (0 .. guide_width - 1) \X (0 .. guide_height - 1) \X (0 .. batch - 1)
Cells ==
  (0 .. grid_channels - 1) \X (0 .. grid_depth - 1) \X (0 .. grid_width - 1)
    \X (0 .. grid_height - 1) \X (0 .. batch - 1)

\* The total weight with which Slice reads Grid[c, gz, gx, gy, b] when it
\* computes Output[c, x, y, b]: its stencil entries that clamp onto the cell.
SliceReadWeight(gd, gz, gx, gy, x, y, b) ==
  Sum2(LAMBDA sy :
    Sum2(LAMBDA sx :
      Sum2(LAMBDA sz :
        IF SliceGxc(sx) = gx /\ SliceGyc(sy) = gy /\ SliceGzc(sz) = gz
        THEN SliceWx(sx, x) * SliceWy(sy, y) * SliceWz(gd, sz, x, y, b)
        ELSE 0,
        SliceGz0(gd, x, y, b)),
      SliceGx0(x)),
    SliceGy0(y))

AdjointValue(gd, ct, gc, gz, gx, gy, b) ==
  SumRange(LAMBDA y :
    SumRange(LAMBDA x :
      ct[At4(gc, x, y, b)] * SliceReadWeight(gd, gz, gx, gy, x, y, b),
      0, guide_width),
    0, guide_height)

\* C1: every stored element of the grid gradient is the sum over all guide
\* pixels of the codomain tangent times the total weight with which Slice
\* reads that grid cell for that pixel, borders and end depth cells included.
C1_GridGradIsAdjoint ==
  call = "grad" =>
    \A q \in Cells :
      LET o == At5(q[1], q[2], q[3], q[4], q[5]) IN
      Written("grid", o) =>
        grid_vjp_out[o] =
          AdjointValue(guide, codomain_tangent, q[1], q[2], q[3], q[4], q[5])

\* A stored, nonzero gradient of a first-depth border cell whose window
\* reaches below pixel 0 and whose guide lies below the first cell centre.
C1_Witness ==
  /\ call = "grad" /\ grid_depth >= 2 /\ guide_width >= 2
  /\ GridGradX0(0) < 0
  /\ \E b \in 0 .. batch - 1 :
       /\ Written("grid", At5(0, 0, 0, 0, b))
       /\ grid_vjp_out[At5(0, 0, 0, 0, b)] > 0
       /\ 2 * GridGradGzf(guide, 0, 0, b) < ZOne
       /\ codomain_tangent[At4(0, 0, 0, b)] > 0

IsConst(f) == \A i, j \in DOMAIN f : f[i] = f[j]

\* C2: on a grid that holds the same value k everywhere, every stored output
\* element is k, whatever the guide.
C2_ConstantGrid ==
  (call = "slice" /\ IsConst(grid)) =>
    \A o \in DOMAIN out : Written("slice", o) => out[o] = grid[0] * OutOne

\* A stored output on a constant grid for a guide value outside [0, 1], with
\* guide and grid of different widths.
C2_Witness ==
  /\ call = "slice" /\ IsConst(grid) /\ guide_width # grid_width
  /\ \E o \in DOMAIN out, p \in Pixels :
       /\ Written("slice", o)
       /\ o = At4(0, p[1], p[2], p[3])
       /\ guide[At3(p[1], p[2], p[3])] > ZOne

\* Bilinear sample of depth slice gz of channel c at pixel (x, y, b), in
\* 1/(XOne * YOne).
SliceOfDepth(g, gz, c, x, y, b) ==
  Sum2(LAMBDA sy :
    Sum2(LAMBDA sx :
      SliceWx(sx, x) * SliceWy(sy, y)
        * g[At5(c, gz, SliceGxc(sx), SliceGyc(sy), b)],
      SliceGx0(x)),
    SliceGy0(y))

ClampsTo(gd, gz, x, y, b) == \A e \in SliceStencil(gd, x, y, b) : e.gzc = gz

\* C3: at guide 0 both depth entries of the stencil clamp to depth 0 and the
\* output is the sample of the first depth slice; at guide 1 both clamp to
\* depth D - 1 and the output is the sample of the last depth slice.
C3_BoundaryClamp ==
  call = "slice" =>
    \A p \in Pixels, c \in 0 .. grid_channels - 1 :
      LET x == p[1]
          y == p[2]
          b == p[3]
          o == At4(c, x, y, b)
          n == guide[At3(x, y, b)]
      IN Written("slice", o) =>
           /\ n = 0 =>
                /\ ClampsTo(guide, 0, x, y, b)
                /\ out[o] = ZOneSq * SliceOfDepth(grid, 0, c, x, y, b)
           /\ n = ZOne =>
                /\ ClampsTo(guide, grid_depth - 1, x, y, b)
                /\ out[o] = ZOneSq * SliceOfDepth(grid, grid_depth - 1, c, x, y, b)

\* A stored output at guide exactly 1 on a grid of several depth cells whose
\* values differ.
C3_Witness ==
  /\ call = "slice" /\ grid_depth >= 2 /\ ~IsConst(grid)
  /\ \E p \in Pixels :
       /\ guide[At3(p[1], p[2], p[3])] = ZOne
       /\ Written("slice", At4(0, p[1], p[2], p[3]))

\* The cells and the spatial weights of a stencil.
Neighbourhood(st) ==
  { [gx |-> e.gx, gy |-> e.gy, gz |-> e.gz, gxc |-> e.gxc, gyc |-> e.gyc,
     gzc |-> e.gzc, wx |-> e.wx, wy |-> e.wy] : e \in st }

\* Slice's sample of channel c with each depth weight replaced by D times its
\* derivative with respect to gzf, in 1/GuideVjpOne.
SliceDepthDerivative(g, gd, c, x, y, b) ==
  Sum2(LAMBDA sy :
    Sum2(LAMBDA sx :
      Sum2(LAMBDA sz :
        SliceWx(sx, x) * SliceWy(sy, y)
          * grid_depth
          * SmoothedLerpWeightGrad(CellCentre(sz, ZOne), SliceGzf(gd, x, y, b), ZOne)
          * g[At5(c, SliceGzc(sz), SliceGxc(sx), SliceGyc(sy), b)],
        SliceGz0(gd, x, y, b)),
      SliceGx0(x)),
    SliceGy0(y))

\* sum_c CodomainTangent[c, x, y, b] * Output[c, x, y, b] with the guide of the
\* pixel moved by h, in 1/OutOne.
Objective(g, gd, ct, x, y, b, h) ==
  LET moved == [gd EXCEPT ![At3(x, y, b)] = @ + h] IN
  SumRange(LAMBDA c : ct[At4(c, x, y, b)] * SliceValue(g, moved, c, x, y, b),
           0, grid_channels)

GuideGradAt(g, gd, ct, x, y, b, h) ==
  GuideGradValue(g, [gd EXCEPT ![At3(x, y, b)] = @ + h], ct, x, y, b)

\* C6: for every stored element of the guide gradient, GuideGradient's
\* neighbourhood is Slice's for that pixel, the stored value is the sum over
\* channels of the codomain tangent times Slice's sample with the depth
\* weight replaced by D times its derivative, and it is the derivative of the
\* objective: between two neighbouring guide values the objective grows by
\* the mean of the gradients at both, and its central difference equals the
\* gradient where no kink of the depth weight lies inside the step.
C6_GuideGradDifferentiatesSlice ==
  call = "grad" =>
    \A p \in Pixels :
      LET x == p[1]
          y == p[2]
          b == p[3]
          o == At3(x, y, b)
          v == guide_vjp_out[o]
          F(h) == Objective(grid, guide, codomain_tangent, x, y, b, h)
      IN Written("guide", o) =>
           /\ Neighbourhood(GuideGradStencil(guide, x, y, b))
                = Neighbourhood(SliceStencil(guide, x, y, b))
           /\ v = SumRange(LAMBDA c :
                     codomain_tangent[At4(c, x, y, b)]
                       * SliceDepthDerivative(grid, guide, c, x, y, b),
                     0, grid_channels)
           /\ 2 * (F(1) - F(0))
                = v + GuideGradAt(grid, guide, codomain_tangent, x, y, b, 1)
           /\ 2 * (F(0) - F(-1))
                = v + GuideGradAt(grid, guide, codomain_tangent, x, y, b, -1)
           /\ guide[o] % GuideRes # 0 => F(1) - F(-1) = 2 * v

\* A stored, nonzero guide gradient on a grid of several depth cells.
C6_Witness ==
  /\ call = "grad" /\ grid_depth >= 2 /\ grid_width >= 2
  /\ \E o \in DOMAIN guide_vjp_out :
       /\ Written("guide", o)
       /\ guide_vjp_out[o] # 0
       /\ guide[o] % GuideRes # 0

\* C8: every read of Grid by a task of Slice or of GuideGradient uses clamped
\* indices inside the grid's extents and a channel and batch inside theirs,
\* GuideGradient's flat grid index lies inside the grid, and no task faults.
C8_ClampedReadsInBounds ==
  /\ device_ok
  /\ IsLaunched("slice") =>
       \A idx \in 0 .. launched["slice"] - 1 : SliceReadsInBounds(guide, idx)
  /\ IsLaunched("guide") =>
       \A idx \in 0 .. launched["guide"] - 1 : GuideGradReadsInBounds(guide, idx)

\* A stored guide gradient of a pixel whose guide is above 1, on a grid wider
\* than the guide.
C8_Witness ==
  /\ call = "grad" /\ grid_width > guide_width /\ grid_depth >= 2
  /\ \E o \in DOMAIN guide_vjp_out : Written("guide", o) /\ guide[o] > ZOne

\* C9: every x of a GridGradient window lies in [-W, 2W - 1] and mirrors into
\* [0, W), likewise y; the flat indices read lie inside Guide and
\* CodomainTangent; the window of a cell that is neither first nor last along
\* an axis lies inside the guide along that axis.
C9_MirroredReadsInBounds ==
  IsLaunched("grid") =>
    \A idx \in 0 .. launched["grid"] - 1 :
      LET q == GridGradCoords(idx) IN
      /\ GridGradReadsInBounds(idx)
      /\ \A x \in GridGradX0(q.gx) .. GridGradX1(q.gx) - 1 :
           /\ -guide_width <= x /\ x <= 2 * guide_width - 1
           /\ GridGradXMirror(x) \in 0 .. guide_width - 1
           /\ (0 < q.gx /\ q.gx < grid_width - 1) => x \in 0 .. guide_width - 1
      /\ \A y \in GridGradY0(q.gy) .. GridGradY1(q.gy) - 1 :
           /\ -guide_height <= y /\ y <= 2 * guide_height - 1
           /\ GridGradYMirror(y) \in 0 .. guide_height - 1
           /\ (0 < q.gy /\ q.gy < grid_height - 1) => y \in 0 .. guide_height - 1

\* GridGradient has stored the gradient of an inner cell and of a border cell
\* whose window reaches past the last pixel.
C9_Witness ==
  /\ call = "grad" /\ grid_width = 3 /\ guide_width >= 2
  /\ GridGradX1(2) > guide_width
  /\ Written("grid", At5(0, 0, 1, 0, 0))
  /\ Written("grid", At5(0, 0, 2, 0, 0))

\* The output offset the task of flat id idx stores to.
TaskOffset(k, idx) ==
  CASE k = "slice" ->
         LET p == SliceCoords(idx) IN At4(p.c, p.x, p.y, p.b)
    [] k = "grid" ->
         LET q == GridGradCoords(idx) IN At5(q.gc, q.gz, q.gx, q.gy, q.b)
    [] k = "guide" ->
         LET p == GuideGradCoords(idx) IN At3(p.x, p.y, p.b)

\* C5: in each kernel the map from task id to output offset is a bijection
\* onto the output, no element is ever stored to twice, and once the kernel
\* has finished every element has been stored to exactly once.
C5_SingleWriter ==
  \A k \in Kernels :
    IsLaunched(k) =>
      LET n == launched[k] IN
      /\ \A i \in 0 .. n - 1 : TaskOffset(k, i) \in 0 .. n - 1
      /\ \A i, j \in 0 .. n - 1 : i # j => TaskOffset(k, i) # TaskOffset(k, j)
      /\ \A o \in DOMAIN writes[k] : writes[k][o] <= 1
      /\ KernelDone(k) => \A o \in 0 .. n - 1 : writes[k][o] = 1

\* Both gradient kernels have finished, run by two threads each and not in
\* stream order, on a grid of at least two cells along x and along y.
C5_Witness ==
  /\ call = "grad" /\ device_threads = 2 /\ ~stream_ordered
  /\ grid_width >= 2 /\ grid_height >= 2
  /\ IsLaunched("grid") /\ KernelDone("grid")
  /\ IsLaunched("guide") /\ KernelDone("guide")

GridTaskStep == next_idx'["grid"] # next_idx["grid"] /\ IsLaunched("grid")
GuideTaskStep == next_idx'["guide"] # next_idx["guide"] /\ IsLaunched("guide")

\* C7: a GridGradient task changes only grid_vjp_out, a GuideGradient task only
\* guide_vjp_out, no step changes Grid, Guide or CodomainTangent, and in every
\* interleaving each stored element holds the value computed from the inputs
\* alone, which is what either sequential order gives.
C7_GradKernelsIndependent ==
  /\ [][/\ inputs' = inputs
        /\ GridTaskStep => guide_vjp_out' = guide_vjp_out
        /\ GuideTaskStep => grid_vjp_out' = grid_vjp_out]_vars
  /\ [](call = "grad" =>
         /\ \A q \in Cells :
              LET o == At5(q[1], q[2], q[3], q[4], q[5]) IN
              grid_vjp_out[o] =
                IF Written("grid", o)
                THEN GridGradValue(guide, codomain_tangent, q[1], q[2], q[3], q[4], q[5])
                ELSE Uninit
         /\ \A p \in Pixels :
              LET o == At3(p[1], p[2], p[3]) IN
              guide_vjp_out[o] =
                IF Written("guide", o)
                THEN GuideGradValue(grid, guide, codomain_tangent, p[1], p[2], p[3])
                ELSE Uninit)

\* A guide gradient stored while GridGradient has stored some but not all of
\* its elements.
C7_Witness ==
  /\ call = "grad" /\ ~stream_ordered
  /\ IsLaunched("grid") /\ ~KernelDone("grid")
  /\ \E o \in DOMAIN grid_vjp_out : Written("grid", o)
  /\ \E o \in DOMAIN guide_vjp_out : Written("guide", o) /\ guide_vjp_out[o] # 0

InExtent(v, extent) == v \in 0 .. extent - 1

\* C10: Slice's factorisation of a task id inverts the CodomainTangent index of
\* GuideGradient and of GridGradient, GuideGradient's inverts GridGradient's
\* Guide index, GridGradient's inverts GuideGradient's Grid index, and every
\* coordinate lies inside its extent.
C10_FactorisationInvertsFlatIndex ==
  /\ \A idx \in 0 .. out_count - 1 :
       LET p == SliceCoords(idx) IN
       /\ GuideGradTangentIdx(p.c, p.x, p.y, p.b) = idx
       /\ GridGradTangentIdx(p.c, p.x, p.y, p.b) = idx
       /\ InExtent(p.c, grid_channels) /\ InExtent(p.x, guide_width)
       /\ InExtent(p.y, guide_height) /\ InExtent(p.b, batch)
  /\ \A idx \in 0 .. guide_vjp_count - 1 :
       LET p == GuideGradCoords(idx) IN
       /\ GridGradGuideIdx(p.x, p.y, p.b) = idx
       /\ InExtent(p.x, guide_width) /\ InExtent(p.y, guide_height)
       /\ InExtent(p.b, batch)
  /\ \A idx \in 0 .. grid_vjp_count - 1 :
       LET q == GridGradCoords(idx) IN
       /\ GuideGradGridIdx(q.gc, q.gz, q.gx, q.gy, q.b) = idx
       /\ InExtent(q.gc, grid_channels) /\ InExtent(q.gz, grid_depth)
       /\ InExtent(q.gx, grid_width) /\ InExtent(q.gy, grid_height)
       /\ InExtent(q.b, batch)

\* Both gradient kernels have run over a guide of several columns and rows
\* and a grid of several depth cells.
C10_Witness ==
  /\ call = "grad" /\ guide_width >= 2 /\ guide_height >= 2 /\ grid_depth >= 2
  /\ IsLaunched("grid") /\ KernelDone("grid")
  /\ IsLaunched("guide") /\ KernelDone("guide")

NothingStored(k) == \A o \in DOMAIN writes[k] : writes[k][o] = 0

\* C4: a launcher called with a target output of zero elements launches no
\* kernel for that output, stores nothing to it, and returns success.
C4_ZeroSizeNoOp ==
  pc = "returned" =>
    /\ (call = "slice" /\ out_count = 0) =>
         /\ ~IsLaunched("slice") /\ NothingStored("slice") /\ ret = TRUE
    /\ (call = "grad" /\ grid_vjp_count = 0) =>
         /\ ~IsLaunched("grid") /\ NothingStored("grid") /\ ret = TRUE
    /\ (call = "grad" /\ guide_vjp_count = 0) =>
         /\ ~IsLaunched("guide") /\ NothingStored("guide") /\ ret = TRUE

====
